---- MODULE Spec2Model ----
(***************************************************************************)
(* A model of pysqueezelite.py: the PySqueezelite wrapper that resolves a  *)
(* Logitech Media Server (by SSDP discovery when no address is given),     *)
(* opens a control session, spawns the squeezelite player, kills running   *)
(* players, and proxies commands and queries to a player handle.           *)
(*                                                                         *)
(* One PySqueezelite instance is modelled together with its environment:   *)
(* the file system (is the binary there), the SSDP responders, the LMS     *)
(* (reachable or not, player registered or not) and the OS process table.  *)
(* start() is followed statement by statement through pc, because each of  *)
(* its three external calls can raise and end the call.                    *)
(***************************************************************************)
EXTENDS Integers, Sequences, FiniteSets, TLC

\* ------------------------------------------------------------------ bounds

\* Responders in one SSDP discovery result.
MaxDevices == 2
\* Process IDs the OS can give to squeezelite processes.
MaxPids == 2

\* --------------------------------------------------------- program constants

\* lmsport and telnetport keyword defaults of __init__.
LmsPort == 9000
TelnetPort == 9090
\* A port advertised by SSDP responders that are not the LMS.
OtherPort == LmsPort + 1

\* Python's None, and the state of an attribute that was never assigned.
NoneV == "None"
Unset == "unset"
\* The object Server.get_player returns for a registered player.
PlayerHandle == "Player"

path == "/usr/bin/squeezelite"

\* Python truthiness of a str-or-None value: None and "" are falsy.
Truthy(x) == x \notin {NoneV, ""}

\* Values the constructor's keyword arguments are drawn from; a call leaves at
\* most one of name, hardware address and extra arguments empty.
Names == {"", "Kitchen"}
Macs == {"", "AA:BB:CC:DD:EE:FF"}
Servers == {NoneV, "10.0.0.5"}
Args == {NoneV, "--foo bar"}
\* Hostnames a caller passes to connect() directly.
Hosts == {"localhost"}

Pids == 1..MaxPids
\* A live process of another program, which pidof never lists.
OtherPid == MaxPids + 1

\* What a call returned: None, a value, or an exception that left it.
RetNone == [kind |-> "none", val |-> NoneV]
RetValue(v) == [kind |-> "value", val |-> v]
Raise(e) == [kind |-> "raise", val |-> e]
Pending == [kind |-> "running", val |-> NoneV]

VARIABLES
  pathIsFile,  \* os.path.isfile(path) when the constructor runs
  inst,        \* "none" (not constructed), "live", "failed" (__init__ raised)
  playername, mac, server, args,   \* self.playername, self.mac, ...
  given,       \* the server keyword argument the constructor received
  devices, matches,                \* self.devices, self.matches
  sc,          \* self.sc: Unset, or the Server object
  player,      \* self.player: Unset, NoneV or PlayerHandle
  pc,          \* position inside start(): idle, discover, connect, spawn
  trace,       \* external calls made by the current (or last) start()
  command,     \* argv of the last subprocess.call in start()
  signals,     \* PIDs that the last kill() signalled, in order
  running,     \* PIDs of running squeezelite processes
  registered,  \* the LMS lists a player with the configured MAC
  activity,    \* the kinds of external call made so far
  lastOp, lastArg, ret             \* the last method called and its outcome

vars == <<pathIsFile, inst, playername, mac, server, args, given, devices,
          matches, sc, player, pc, trace, command, signals, running,
          registered, activity, lastOp, lastArg, ret>>

config == <<playername, mac, args, given>>
session == <<sc, player>>
discovery == <<devices, matches>>
process == <<command, signals, running>>

NoSc == [hostname |-> Unset, port |-> 0, connected |-> FALSE]

Did(kind) == activity \cup {kind}

Init ==
  /\ pathIsFile \in BOOLEAN
  /\ inst = "none"
  /\ playername = Unset /\ mac = Unset /\ server = Unset /\ args = Unset
  /\ given = Unset
  /\ devices = <<>> /\ matches = <<>>
  /\ sc = NoSc
  /\ player = Unset
  /\ pc = "idle"
  /\ trace = <<>>
  /\ command = <<>>
  /\ signals = <<>>
  /\ running = {}
  /\ registered = FALSE
  /\ activity = {}
  /\ lastOp = "none" /\ lastArg = NoneV /\ ret = RetNone

\* ------------------------------------------------------------- __init__

\* Faulty variant: the constructor without its isfile check.
isfile_check_Skipped(isf) == "live"

\* Lines 69-71: the constructor raises unless the binary is a file.
isfile_check(isf) == IF ~isf THEN "failed" ELSE "live"

PySqueezelite_init ==
  /\ inst = "none"
  /\ \E pl \in Names, m \in Macs, srv \in Servers, a \in Args :
       /\ Cardinality({x \in {<<1, pl>>, <<2, m>>, <<3, a>>} : ~Truthy(x[2])}) <= 1
       /\ playername' = pl /\ mac' = m /\ server' = srv /\ args' = a
       /\ given' = srv
  /\ inst' = isfile_check(pathIsFile)
  /\ ret' = IF inst' = "failed" THEN Raise("PySqueezeliteError: Can't find squeezelite")
            ELSE RetNone
  /\ lastOp' = "__init__" /\ lastArg' = NoneV
  /\ UNCHANGED <<pathIsFile, discovery, session, pc, trace, process,
                 registered, activity>>

\* ------------------------------------------------------- ssdp.discover

\* An entry of discover()'s result that Python treats as false.
FalsyDevice == [ip |-> NoneV, port |-> 0]
Ips == {"192.168.1.50", "192.168.1.51"}
Device == [ip : Ips, port : {LmsPort, OtherPort}]

RECURSIVE SeqsUpTo(_, _)
SeqsUpTo(S, n) ==
  IF n = 0 THEN {<<>>}
  ELSE LET shorter == SeqsUpTo(S, n - 1)
       IN shorter \cup {Append(q, x) : q \in {r \in shorter : Len(r) = n - 1}, x \in S}

\* The lists discover("ssdp:all") may return.
Responses == SeqsUpTo(Device \cup {FalsyDevice}, MaxDevices)

\* ---------------------------------------------------- __discover_server

\* Line 115: [x for x in discover("ssdp:all") if x]
FilterDevices(resp) == SelectSeq(resp, LAMBDA x : x # FalsyDevice)

\* Faulty variant: the addresses are read at the positions of the unfiltered
\* list.
MatchIps_WrongIndex(devs, port) ==
  LET kept == SelectSeq(devs, LAMBDA x : x.port = port)
  IN [i \in 1..Len(kept) |-> devs[i].ip]

\* Line 117: [x.ip for x in self.devices if x.port == self.lmsport]
MatchIps(devs, port) ==
  LET kept == SelectSeq(devs, LAMBDA x : x.port = port)
  IN [i \in 1..Len(kept) |-> kept[i].ip]

\* Faulty variant: several matches, and the first one is taken.
Resolve_PickFirst(ms) ==
  IF Len(ms) = 0 THEN Raise("PySqueezeliteError: No servers found")
  ELSE RetValue(ms[1])

\* Faulty variant: no match, and None is returned instead of raising.
Resolve_NoneOnEmpty(ms) ==
  IF Len(ms) > 1 THEN Raise("PySqueezeliteError: Multiple servers found")
  ELSE IF Len(ms) = 0 THEN RetValue(NoneV)
  ELSE RetValue(ms[1])

\* Lines 119-130: the outcome for a list of matching addresses.
Resolve(ms) ==
  IF Len(ms) > 1 THEN Raise("PySqueezeliteError: Multiple servers found")
  ELSE IF Len(ms) = 0 THEN Raise("PySqueezeliteError: No servers found")
  ELSE RetValue(ms[1])

discover_server(resp) ==
  LET devs == FilterDevices(resp)
      ms == MatchIps(devs, LmsPort)
  IN [devices |-> devs, matches |-> ms, out |-> Resolve(ms)]

\* ------------------------------------------------- pylms Server / Player

\* Server.get_player(ref): the player whose ref is the address, or None.
get_player(ref) == IF Truthy(ref) /\ registered THEN PlayerHandle ELSE NoneV

\* Lines 133-135. Server.connect() raises when the server cannot be reached;
\* self.sc is already rebound then, self.player is not.
connect(hostname, port, reachable) ==
  /\ sc' = [hostname |-> hostname, port |-> port, connected |-> reachable]
  /\ player' = IF reachable THEN get_player(mac) ELSE player

ConnectOutcome(reachable) ==
  IF reachable THEN RetNone ELSE Raise("socket.error: unreachable")

\* ---------------------------------------------------------------- start

\* Faulty variant: the daemonise flag appended after the other arguments.
Command_DaemoniseLast(bin, pl, m, srv, a) ==
  <<bin>>
    \o (IF Truthy(pl) THEN <<"-n", pl>> ELSE <<>>)
    \o (IF Truthy(m) THEN <<"-m", m>> ELSE <<>>)
    \o (IF Truthy(srv) THEN <<"-s", srv>> ELSE <<>>)
    \o (IF Truthy(a) THEN <<a>> ELSE <<>>)
    \o <<"-z">>

\* Lines 82-98: the argument list handed to subprocess.call.
Command(bin, pl, m, srv, a) ==
  <<bin, "-z">>
    \o (IF Truthy(pl) THEN <<"-n", pl>> ELSE <<>>)
    \o (IF Truthy(m) THEN <<"-m", m>> ELSE <<>>)
    \o (IF Truthy(srv) THEN <<"-s", srv>> ELSE <<>>)
    \o (IF Truthy(a) THEN <<a>> ELSE <<>>)

\* Faulty variant: start() discovers whether or not an address is set.
start_begin_AlwaysDiscover ==
  /\ inst = "live" /\ pc = "idle"
  /\ running # Pids
  /\ pc' = "discover"
  /\ trace' = <<>>
  /\ lastOp' = "start" /\ lastArg' = NoneV /\ ret' = Pending
  /\ UNCHANGED <<pathIsFile, inst, config, server, discovery, session, process,
                 registered, activity>>

\* Line 76: start() is entered; discovery is needed iff self.server is falsy.
start_begin ==
  /\ inst = "live" /\ pc = "idle"
  /\ running # Pids
  /\ pc' = IF ~Truthy(server) THEN "discover" ELSE "connect"
  /\ trace' = <<>>
  /\ lastOp' = "start" /\ lastArg' = NoneV /\ ret' = Pending
  /\ UNCHANGED <<pathIsFile, inst, config, server, discovery, session, process,
                 registered, activity>>

\* Line 77: self.server = self.__discover_server()
start_discover ==
  /\ pc = "discover"
  /\ \E resp \in Responses :
       LET r == discover_server(resp)
       IN /\ devices' = r.devices
          /\ matches' = r.matches
          /\ IF r.out.kind = "raise"
             THEN /\ ret' = r.out /\ pc' = "idle" /\ UNCHANGED server
             ELSE /\ server' = r.out.val /\ pc' = "connect" /\ UNCHANGED ret
  /\ trace' = Append(trace, "discover")
  /\ activity' = Did("discover")
  /\ UNCHANGED <<pathIsFile, inst, config, session, process, registered,
                 lastOp, lastArg>>

\* Faulty variant: a failed connect is swallowed and start() goes on.
start_connect_IgnoringFailure ==
  /\ pc = "connect"
  /\ \E reachable \in BOOLEAN : connect(server, TelnetPort, reachable)
  /\ pc' = "spawn"
  /\ trace' = Append(trace, "connect")
  /\ activity' = Did("connect")
  /\ UNCHANGED <<pathIsFile, inst, config, server, discovery, process,
                 registered, lastOp, lastArg, ret>>

\* Line 79: self.connect(self.server, self.telnetport)
start_connect ==
  /\ pc = "connect"
  /\ \E reachable \in BOOLEAN :
       /\ connect(server, TelnetPort, reachable)
       /\ IF reachable
          THEN pc' = "spawn" /\ UNCHANGED ret
          ELSE pc' = "idle" /\ ret' = ConnectOutcome(reachable)
  /\ trace' = Append(trace, "connect")
  /\ activity' = Did("connect")
  /\ UNCHANGED <<pathIsFile, inst, config, server, discovery, process,
                 registered, lastOp, lastArg>>

\* Lines 82-101: assemble the command and launch the daemonising player.
start_spawn ==
  /\ pc = "spawn"
  /\ command' = Command(path, playername, mac, server, args)
  /\ \E pid \in Pids \ running : running' = running \cup {pid}
  /\ trace' = Append(trace, "spawn")
  /\ activity' = Did("spawn")
  /\ pc' = "idle" /\ ret' = RetNone
  /\ UNCHANGED <<pathIsFile, inst, config, server, discovery, session, signals,
                 registered, lastOp, lastArg>>

\* connect(hostname, port) called by the user of the instance.
connect_call ==
  /\ inst = "live" /\ pc = "idle"
  /\ \E hostname \in Hosts, reachable \in BOOLEAN :
       /\ connect(hostname, TelnetPort, reachable)
       /\ ret' = ConnectOutcome(reachable)
       /\ lastArg' = hostname
  /\ lastOp' = "connect"
  /\ activity' = Did("connect")
  /\ UNCHANGED <<pathIsFile, inst, config, server, discovery, pc, trace,
                 process, registered>>

\* ----------------------------------------------------------------- kill

Space == " "
Newline == "\n"
Whitespace == {Space, Newline}

\* The orders in which pidof may list a set of PIDs.
Orders(S) ==
  {q \in [1..Cardinality(S) -> S] : \A i, j \in DOMAIN q : q[i] = q[j] => i = j}

\* Text is a sequence of tokens: a decimal number, a space or a newline.
\* pidof prints the PIDs separated by single spaces and ends the line.
RECURSIVE JoinPids(_)
JoinPids(q) ==
  IF q = <<>> THEN <<>>
  ELSE IF Len(q) = 1 THEN <<ToString(q[1])>>
  ELSE <<ToString(q[1]), Space>> \o JoinPids(Tail(q))

PidofOutput(q) == JoinPids(q) \o <<Newline>>

\* str.strip(): leading and trailing whitespace removed.
RECURSIVE LStrip(_)
LStrip(t) == IF t # <<>> /\ Head(t) \in Whitespace THEN LStrip(Tail(t)) ELSE t

RECURSIVE RStrip(_)
RStrip(t) ==
  IF t # <<>> /\ t[Len(t)] \in Whitespace THEN RStrip(SubSeq(t, 1, Len(t) - 1))
  ELSE t

Strip(t) == RStrip(LStrip(t))

\* str.split(sep): the pieces between the separators, empty pieces kept.
RECURSIVE SplitFrom(_, _, _)
SplitFrom(t, sep, piece) ==
  IF t = <<>> THEN <<piece>>
  ELSE IF Head(t) = sep THEN <<piece>> \o SplitFrom(Tail(t), sep, <<>>)
  ELSE SplitFrom(Tail(t), sep, Append(piece, Head(t)))

Split(t, sep) == SplitFrom(t, sep, <<>>)

\* Faulty variant: the output is split without stripping the line end.
KillArgs_NoStrip(out) == Split(out, Space)

\* Lines 108-111: the arguments of the kill commands, from pidof's output.
KillArgs(out) == Split(Strip(out), Space)

\* The process that "kill -9 arg" signals: arg must be exactly the PID of a
\* live process.
KillTargets(arg) == {p \in running \cup {OtherPid} : arg = <<ToString(p)>>}

RECURSIVE Signalled(_)
Signalled(pieces) ==
  IF pieces = <<>> THEN <<>>
  ELSE LET hit == KillTargets(Head(pieces))
       IN (IF hit = {} THEN <<>> ELSE <<CHOOSE p \in hit : TRUE>>)
            \o Signalled(Tail(pieces))

Range(q) == {q[i] : i \in DOMAIN q}

\* pidof exits non-zero when nothing matches and check_output raises.
kill ==
  /\ inst = "live" /\ pc = "idle"
  /\ IF running = {}
     THEN /\ ret' = Raise("CalledProcessError: pidof")
          /\ signals' = <<>>
          /\ activity' = Did("pidof")
          /\ UNCHANGED running
     ELSE \E q \in Orders(running) :
            LET sent == Signalled(KillArgs(PidofOutput(q)))
            IN /\ signals' = sent
               /\ running' = running \ Range(sent)
               /\ activity' = activity \cup {"pidof", "kill"}
               /\ ret' = RetNone
  /\ lastOp' = "kill" /\ lastArg' = NoneV
  /\ UNCHANGED <<pathIsFile, inst, config, server, discovery, session, pc,
                 trace, command, registered>>

\* ------------------------------------------------- queries and commands

\* The query methods of pylms.player.Player that the properties use.
PlayerMethods ==
  {"get_track_title", "get_track_artist", "get_track_album",
   "get_track_duration", "get_time_elapsed"}
\* Names get_player_info is asked for.
InfoNames == PlayerMethods \cup {"get_bogus"}

\* hasattr(self.player, info)
HasAttr(pl, info) == pl = PlayerHandle /\ info \in PlayerMethods

\* Lines 140-146. Reading self.player raises AttributeError while it was never
\* assigned; "self.connect" on line 141 names the method and does not call it.
GetPlayerInfo(pl, info) ==
  IF pl = Unset THEN Raise("AttributeError: player")
  ELSE IF HasAttr(pl, info) THEN RetValue(info)
  ELSE RetNone

get_player_info ==
  /\ inst = "live" /\ pc = "idle"
  /\ \E info \in InfoNames :
       /\ ret' = GetPlayerInfo(player, info)
       /\ lastArg' = info
  /\ lastOp' = "get_player_info"
  /\ UNCHANGED <<pathIsFile, inst, config, server, discovery, session, pc,
                 trace, process, registered, activity>>

\* Lines 160-183: the properties and the name each passes to get_player_info.
PropertyInfo ==
  [track_title |-> "get_track_title", track_artist |-> "get_track_artist",
   track_album |-> "get_track_album", track_duration |-> "get_track_duration",
   track_time |-> "get_time_elapsed"]

track_property ==
  /\ inst = "live" /\ pc = "idle"
  /\ \E prop \in DOMAIN PropertyInfo :
       /\ ret' = GetPlayerInfo(player, PropertyInfo[prop])
       /\ lastOp' = prop
  /\ lastArg' = NoneV
  /\ UNCHANGED <<pathIsFile, inst, config, server, discovery, session, pc,
                 trace, process, registered, activity>>

\* Lines 148-158: self.player.<method>() with whatever self.player holds.
PlayerCall(pl, method) ==
  IF pl = Unset THEN Raise("AttributeError: player")
  ELSE IF pl = NoneV THEN Raise("AttributeError: NoneType")
  ELSE RetNone

PlayerCommand(op, method) ==
  /\ inst = "live" /\ pc = "idle"
  /\ ret' = PlayerCall(player, method)
  /\ lastOp' = op /\ lastArg' = method
  /\ UNCHANGED <<pathIsFile, inst, config, server, discovery, session, pc,
                 trace, process, registered, activity>>

play_pause == PlayerCommand("play_pause", "toggle")
stop == PlayerCommand("stop", "stop")
next_track == PlayerCommand("next_track", "next")
prev_track == PlayerCommand("prev_track", "prev")

\* ---------------------------------------------------------- environment

\* A squeezelite process ends on its own.
proc_exit ==
  /\ \E p \in running : running' = running \ {p}
  /\ UNCHANGED <<pathIsFile, inst, config, server, discovery, session, pc,
                 trace, command, signals, registered, activity, lastOp, lastArg, ret>>

\* A running player registers with the LMS, which then keeps listing it.
lms_register ==
  /\ running # {} /\ ~registered
  /\ registered' = TRUE
  /\ UNCHANGED <<pathIsFile, inst, config, server, discovery, session, pc,
                 trace, process, activity, lastOp, lastArg, ret>>

\* The operations that change the instance or its environment.
NextLifecycle ==
  \/ PySqueezelite_init
  \/ start_begin
  \/ start_discover
  \/ start_connect
  \/ start_spawn
  \/ connect_call
  \/ kill
  \/ proc_exit
  \/ lms_register

\* The queries and commands, which only return or raise.
NextQuery ==
  \/ get_player_info
  \/ track_property
  \/ play_pause
  \/ stop
  \/ next_track
  \/ prev_track

Next == NextLifecycle \/ NextQuery

\* Every operation of the class.
Spec == Init /\ [][Next]_vars

\* The operations with an effect; the queries and commands leave everything
\* but lastOp, lastArg and ret as it is.
SpecLifecycle == Init /\ [][NextLifecycle]_vars

\* ------------------------------------------------------------ properties

\* Devices in self.devices that advertise the configured server port.
MatchingDevices == {i \in DOMAIN devices : devices[i].port = LmsPort}
\* The last call was start() and it ran discovery.
StartDiscovered == lastOp = "start" /\ "discover" \in Range(trace)
StartEnded == lastOp = "start" /\ pc = "idle"

Count(q, x) == Cardinality({i \in DOMAIN q : q[i] = x})

\* C1: when two or more responders advertise the server port, discovery raises
\* "multiple servers found", self.server stays unset, and the start() call ends
\* there: it neither connects nor spawns.
C1_AmbiguousDiscoveryFails ==
  (StartDiscovered /\ Cardinality(MatchingDevices) >= 2) =>
    /\ pc = "idle"
    /\ ret = Raise("PySqueezeliteError: Multiple servers found")
    /\ ~Truthy(server)
    /\ trace = <<"discover">>

C1_Witness ==
  /\ StartEnded /\ trace = <<"discover">>
  /\ Cardinality(MatchingDevices) >= 2
  /\ ret.kind = "raise"

\* C2: when no responder advertises the server port (none at all, or only
\* other ports), discovery raises "no servers found", runs once, and the start()
\* call ends there: it neither connects nor spawns.
C2_NoMatchFails ==
  (StartDiscovered /\ MatchingDevices = {}) =>
    /\ pc = "idle"
    /\ ret = Raise("PySqueezeliteError: No servers found")
    /\ ~Truthy(server)
    /\ trace = <<"discover">>

C2_Witness ==
  /\ StartEnded /\ trace = <<"discover">>
  /\ MatchingDevices = {} /\ devices # <<>>
  /\ ret.kind = "raise"

\* C3: when exactly one responder advertises the server port, whatever else
\* responds, self.server becomes that responder's address, the control session
\* is opened to it and the player is launched with -s and that address.
C3_UniqueMatchUsed ==
  (StartDiscovered /\ Cardinality(MatchingDevices) = 1) =>
    LET ip == devices[CHOOSE i \in MatchingDevices : TRUE].ip
    IN /\ server = ip
       /\ pc = "idle" => Len(trace) >= 2
       /\ Len(trace) >= 2 => trace[2] = "connect" /\ sc.hostname = ip
       /\ "spawn" \in Range(trace) =>
            \E i \in 1..(Len(command) - 1) : command[i] = "-s" /\ command[i + 1] = ip

C3_Witness ==
  /\ StartEnded /\ trace = <<"discover", "connect", "spawn">>
  /\ Cardinality(MatchingDevices) = 1 /\ Len(devices) >= 2
  /\ devices[1].port # LmsPort

\* C4: with a binary path that is no file the constructor raises, the instance
\* never comes to life, and nothing was discovered, connected, spawned or killed.
C4_MissingBinaryFailsAtConstruction ==
  (~pathIsFile /\ inst # "none") =>
    /\ inst = "failed"
    /\ lastOp = "__init__" /\ ret.kind = "raise"
    /\ activity = {} /\ pc = "idle" /\ trace = <<>>
    /\ sc = NoSc /\ player = Unset /\ command = <<>> /\ signals = <<>>

C4_Witness == inst = "failed" /\ ~pathIsFile /\ ret.kind = "raise"

\* C5: start() resolves the address, then connects, then spawns: it connects
\* only with an address, spawns only after connect returned, and a start() that
\* raised spawned nothing.
C5_StartOrder ==
  /\ trace \in {<<>>, <<"discover">>, <<"discover", "connect">>,
                <<"discover", "connect", "spawn">>, <<"connect">>,
                <<"connect", "spawn">>}
  /\ pc = "connect" => Truthy(server)
  /\ (lastOp = "start" /\ "connect" \in Range(trace)) =>
       Truthy(server) /\ sc.hostname = server
  /\ pc = "spawn" => sc.connected /\ trace[Len(trace)] = "connect"
  /\ (lastOp = "start" /\ "spawn" \in Range(trace)) => sc.connected
  /\ (StartEnded /\ ret.kind = "raise") => "spawn" \notin Range(trace)

C5_Witness ==
  /\ StartEnded /\ trace = <<"discover", "connect", "spawn">>
  /\ ret.kind = "none"

\* C6: with a server address given to the constructor discovery is never run;
\* a start() call runs it at most once, first thing, and only without an address.
C6_DiscoveryOnlyWhenUnset ==
  /\ Truthy(given) => "discover" \notin activity /\ pc # "discover"
  /\ Count(trace, "discover") <= 1
  /\ pc = "discover" => ~Truthy(server) /\ trace = <<>>
  /\ "discover" \in Range(trace) => trace[1] = "discover" /\ ~Truthy(given)

C6_Witness ==
  /\ Truthy(given) /\ StartEnded /\ trace = <<"connect", "spawn">>
  /\ "kill" \in activity

\* C7: with a name, a hardware address, a server address and extra arguments
\* the launched command is the binary, -z, -n name, -m mac, -s server, and the
\* extra arguments as given.
C7_CommandAssembly ==
  (command # <<>> /\ Truthy(playername) /\ Truthy(mac) /\ Truthy(server)
     /\ Truthy(args)) =>
    command = <<path, "-z", "-n", playername, "-m", mac, "-s", server, args>>

C7_Witness ==
  /\ StartEnded /\ "spawn" \in Range(trace)
  /\ playername = "Kitchen" /\ mac = "AA:BB:CC:DD:EE:FF" /\ args = "--foo bar"
  /\ given = "10.0.0.5"

\* C8: kill() with no matching process raises and signals nothing; otherwise
\* every matching process gets exactly one signal and no other process any.
C8_KillSignalsEachMatch ==
  [][kill =>
       IF running = {}
       THEN ret'.kind = "raise" /\ signals' = <<>> /\ running' = running
       ELSE /\ ret'.kind = "none"
            /\ \A p \in Pids \cup {OtherPid} :
                 Count(signals', p) = (IF p \in running THEN 1 ELSE 0)]_vars

C8_Witness == lastOp = "kill" /\ Len(signals) >= 2 /\ running = {}

\* C9: connect() raises when the server is unreachable or the player is not
\* registered, so a connect that returned resolved a handle, start() reaches
\* the spawn only with a handle, and the instance never holds an empty handle.
C9_ConnectResolvesHandleOrFails ==
  /\ (lastOp = "connect" /\ ret.kind = "none") => player = PlayerHandle
  /\ pc = "spawn" => player = PlayerHandle
  /\ player # NoneV

\* C10: get_player_info with a name the player does not support returns None
\* and does not raise, in every state of a constructed instance.
C10_UnsupportedInfoIsNone ==
  (lastOp = "get_player_info" /\ lastArg \notin PlayerMethods) => ret = RetNone
====
